---------------------------- MODULE Spec2Model ----------------------------
(***************************************************************************)
(* Model of jenkins-to-gha-converter.py: the conversion run of             *)
(* JenkinsToGHAConverter.convert() driven by main(), over an input tree    *)
(* and an output tree, together with the pure functions it is built from   *)
(* (_classify_stage, _parse_jenkinsfile, _generate_*_jobs,                  *)
(* _generate_workflow_name, the exclusion tests of _copy_source_code).     *)
(*                                                                         *)
(* Text is modelled as a tuple of one-character strings, so that lower(),  *)
(* replace(), startswith(), "in" and fnmatch are computed character by     *)
(* character as the Python code computes them.  A path is a tuple of names *)
(* relative to its root.  A tree is a function from paths to nodes.        *)
(***************************************************************************)
EXTENDS Naturals, Integers, Sequences, FiniteSets, TLC

VARIABLES
    inputKind,      \* what self.input_path is: "dir", "missing" or "file"
    inFS,           \* the input tree: path -> node (root excluded)
    outFS,          \* the output tree: path -> node (<<>> is the output root)
    out0,           \* history: the output tree as main() found it
    pc,             \* position of main()/convert(): start, find, convert, copy, done
    jenkinsfiles,   \* the list _find_jenkinsfiles returned
    idx,            \* loop position of "for jenkinsfile in jenkinsfiles"
    log,            \* the records handed to logger, in order
    exitCode,       \* main()'s return value, -1 while running
    run,            \* which invocation of main() this is: 1, or 2 for a rerun
    scan_order,     \* the order in which os.walk listed the pipeline files on run 1
    java_versions,  \* self.java_versions, set by main() from --java-versions
    c_name,         \* classifier harness: the stage name as found in the source
    c_type,         \* classifier harness: result of _classify_stage, "" before the call
    g_content,      \* generator harness: text of the pipeline file (tokens)
    g_markers,      \* generator harness: marker files beside the pipeline file
    g_dir,          \* generator harness: directory of the pipeline file (relative path)
    g_info,         \* generator harness: pipeline_info from _parse_jenkinsfile
    g_workflow,     \* generator harness: the workflow from _generate_gha_workflow
    g_pc,           \* generator harness: "init", "parsed", "generated"
    y_data,         \* emitter harness: the document given to dict_to_yaml
    y_lines,        \* emitter harness: the lines dict_to_yaml returned
    y_pc            \* emitter harness: "init", "rendered"

vars == <<inputKind, inFS, outFS, out0, pc, jenkinsfiles, idx, log, exitCode,
          run, scan_order,
          java_versions, c_name, c_type, g_content, g_markers, g_dir, g_info,
          g_workflow, g_pc, y_data, y_lines, y_pc>>

runVars == <<inputKind, inFS, outFS, out0, pc, jenkinsfiles, idx, log, exitCode,
             run, scan_order>>
classifyVars == <<c_name, c_type>>
genVars == <<g_content, g_markers, g_dir, g_info, g_workflow, g_pc>>
yamlVars == <<y_data, y_lines, y_pc>>

-----------------------------------------------------------------------------
(* Bounds of the model *)

\* total number of entries chosen for the input tree and the pre-existing output tree
MaxEntries == 3
\* nesting depth of the values of a document given to the emitter
MaxDepth == 2
\* number of words in a stage name given to the classifier
MaxWords == 2
\* number of tokens in the pipeline text given to the generator harness
MaxTokens == 4

-----------------------------------------------------------------------------
(* Text: tuples of one-character strings *)

UpperAlpha == <<"A","B","C","D","E","F","G","H","I","J","K","L","M",
                "N","O","P","Q","R","S","T","U","V","W","X","Y","Z">>
LowerAlpha == <<"a","b","c","d","e","f","g","h","i","j","k","l","m",
                "n","o","p","q","r","s","t","u","v","w","x","y","z">>

\* str.lower() on one character
LowerChar(c) ==
    IF \E i \in 1..26 : UpperAlpha[i] = c
    THEN LowerAlpha[CHOOSE i \in 1..26 : UpperAlpha[i] = c]
    ELSE c

\* str.lower()
Lower(s) == [i \in 1..Len(s) |-> LowerChar(s[i])]

\* str.replace(' ', '-')
ReplaceSpaceHyphen(s) == [i \in 1..Len(s) |-> IF s[i] = " " THEN "-" ELSE s[i]]

\* s.startswith(p)
StartsWith(s, p) == Len(p) <= Len(s) /\ SubSeq(s, 1, Len(p)) = p

\* s.endswith(p)
EndsWith(s, p) == Len(p) <= Len(s) /\ SubSeq(s, Len(s) - Len(p) + 1, Len(s)) = p

\* p in s (substring membership)
Contains(s, p) ==
    \E i \in 0..(Len(s) - Len(p)) : SubSeq(s, i + 1, i + Len(p)) = p

\* the Python str of a text, as a TLA+ string
RECURSIVE ToStr(_)
ToStr(s) == IF s = <<>> THEN "" ELSE Head(s) \o ToStr(Tail(s))

\* ' '.join(words)
RECURSIVE JoinWords(_)
JoinWords(ws) ==
    IF ws = <<>> THEN <<>>
    ELSE IF Len(ws) = 1 THEN ws[1]
    ELSE ws[1] \o <<" ">> \o JoinWords(Tail(ws))

-----------------------------------------------------------------------------
(* Stage classifier *)

build_keywords == {<<"b","u","i","l","d">>,
                   <<"c","o","m","p","i","l","e">>,
                   <<"p","a","c","k","a","g","e">>}
test_keywords == {<<"t","e","s","t">>,
                  <<"u","n","i","t">>,
                  <<"i","n","t","e","g","r","a","t","i","o","n">>}
deploy_keywords == {<<"d","e","p","l","o","y">>,
                    <<"d","e","l","i","v","e","r">>,
                    <<"p","u","b","l","i","s","h">>,
                    <<"r","e","l","e","a","s","e">>}
security_keywords == {<<"s","e","c","u","r","i","t","y">>,
                      <<"s","c","a","n">>,
                      <<"v","u","l","n","e","r","a","b","i","l","i","t","y">>,
                      <<"a","u","d","i","t">>}

\* any(keyword in stage_name for keyword in keywords)
AnyKeywordIn(stage_name, keywords) == \E keyword \in keywords : Contains(stage_name, keyword)

\* variant: the test keywords are checked before the build keywords
ClassifyStageTestFirst(stage_name) ==
    IF AnyKeywordIn(stage_name, test_keywords) THEN "test"
    ELSE IF AnyKeywordIn(stage_name, build_keywords) THEN "build"
    ELSE IF AnyKeywordIn(stage_name, deploy_keywords) THEN "deliver"
    ELSE IF AnyKeywordIn(stage_name, security_keywords) THEN "security"
    ELSE "build"

_classify_stage(stage_name) ==
    IF AnyKeywordIn(stage_name, build_keywords) THEN "build"
    ELSE IF AnyKeywordIn(stage_name, test_keywords) THEN "test"
    ELSE IF AnyKeywordIn(stage_name, deploy_keywords) THEN "deliver"
    ELSE IF AnyKeywordIn(stage_name, security_keywords) THEN "security"
    ELSE "build"

\* the type _parse_jenkinsfile records for a stage: self._classify_stage(stage.lower())
StageTypeOf(stage) == _classify_stage(Lower(stage))

\* words that stage names of the classifier harness are made of
StageWords == <<<<"B","u","i","l","d">>,
                <<"c","o","m","p","i","l","e">>,
                <<"P","a","c","k","a","g","e">>,
                <<"T","e","s","t">>,
                <<"T","e","s","t","s">>,
                <<"U","n","i","t">>,
                <<"i","n","t","e","g","r","a","t","i","o","n">>,
                <<"D","e","p","l","o","y">>,
                <<"d","e","l","i","v","e","r">>,
                <<"P","u","b","l","i","s","h">>,
                <<"r","e","l","e","a","s","e">>,
                <<"S","e","c","u","r","i","t","y">>,
                <<"s","c","a","n">>,
                <<"v","u","l","n","e","r","a","b","i","l","i","t","y">>,
                <<"A","u","d","i","t">>,
                <<"L","i","n","t">>,
                <<"R","u","n">>,
                <<"a","n","d">>,
                <<"t","o">>,
                <<"P","r","o","d">>>>

\* stage names given as examples of the classification
ExampleStageNames ==
    { <<"B","u","i","l","d"," ","a","n","d"," ","T","e","s","t">>, <<"R","u","n"," ","T","e","s","t","s">>, <<"D","e","p","l","o","y"," ","t","o"," ","P","r","o","d">>, <<"S","e","c","u","r","i","t","y"," ","A","u","d","i","t">>, <<"L","i","n","t">> }

\* the stage names the harness draws from: the examples and every name of
\* 1..MaxWords words joined by spaces
StageNames ==
    ExampleStageNames
    \cup UNION { { JoinWords([i \in 1..n |-> StageWords[f[i]]]) :
                   f \in [1..n -> 1..Len(StageWords)] } : n \in 1..MaxWords }

-----------------------------------------------------------------------------
(* Pipeline text parser *)

(* The text of a pipeline file is a sequence of tokens separated by blanks: *)
(* a stage declaration  stage('<name>'),  a shell invocation  sh '<cmd>',   *)
(* a closing brace  }  and any other text (an opening brace, a keyword).    *)
(* These are the constructs the regular expressions of the parser match.    *)
StageTok(name) == [k |-> "stage", text |-> name]
ShTok(cmd) == [k |-> "sh", text |-> cmd]
CloseTok == [k |-> "close", text |-> <<>>]
OtherTok == [k |-> "other", text |-> <<>>]

\* re.findall(stage_pattern, content, re.IGNORECASE): the captured names, in order
RECURSIVE FindStages(_)
FindStages(content) ==
    IF content = <<>> THEN <<>>
    ELSE IF Head(content).k = "stage"
         THEN <<Head(content).text>> \o FindStages(Tail(content))
         ELSE FindStages(Tail(content))

\* re.findall(sh_pattern, stage_content): the quoted commands of a span, in order
RECURSIVE FindShCommands(_)
FindShCommands(span) ==
    IF span = <<>> THEN <<>>
    ELSE IF Head(span).k = "sh"
         THEN <<Head(span).text>> \o FindShCommands(Tail(span))
         ELSE FindShCommands(Tail(span))

\* positions where  stage('<stage_name>') .*? } \s* }  can match (re.IGNORECASE)
StageMatchStarts(content, stage_name) ==
    { i \in 1..Len(content) :
        /\ content[i].k = "stage"
        /\ Lower(content[i].text) = Lower(stage_name)
        /\ \E j \in (i + 1)..(Len(content) - 1) :
              content[j].k = "close" /\ content[j + 1].k = "close" }

\* re.search takes the leftmost start and, the span being non-greedy, the
\* nearest closing pair; the commands are the sh invocations of that span
_extract_stage_commands(content, stage_name) ==
    LET starts == StageMatchStarts(content, stage_name) IN
    IF starts = {} THEN <<>>
    ELSE LET i == CHOOSE a \in starts : \A b \in starts : a <= b
             ends == { j \in (i + 1)..(Len(content) - 1) :
                         content[j].k = "close" /\ content[j + 1].k = "close" }
             j == CHOOSE a \in ends : \A b \in ends : a <= b
         IN FindShCommands(SubSeq(content, i, j + 1))

\* marker file names
N_pom == <<"p","o","m",".","x","m","l">>
N_gradle == <<"b","u","i","l","d",".","g","r","a","d","l","e">>
N_gradle_kts == <<"b","u","i","l","d",".","g","r","a","d","l","e",".","k","t","s">>
N_package_json == <<"p","a","c","k","a","g","e",".","j","s","o","n">>

\* str(Path) of a relative path: the names joined by '/', '.' for the root
RECURSIVE JoinPath(_)
JoinPath(path) ==
    IF path = <<>> THEN <<".">>
    ELSE IF Len(path) = 1 THEN path[1]
    ELSE path[1] \o <<"/">> \o JoinPath(Tail(path))

\* working_directory None
NoWorkingDirectory == <<>>

\* project type and working directory from the marker files beside the pipeline file;
\* siblings is the set of names in jenkinsfile.parent, project_dir its relative path
DetectProject(siblings, project_dir) ==
    IF N_pom \in siblings
    THEN [project_type |-> "maven", working_directory |-> JoinPath(project_dir)]
    ELSE IF N_gradle \in siblings \/ N_gradle_kts \in siblings
    THEN [project_type |-> "gradle", working_directory |-> JoinPath(project_dir)]
    ELSE IF N_package_json \in siblings
    THEN [project_type |-> "node", working_directory |-> JoinPath(project_dir)]
    ELSE [project_type |-> "generic", working_directory |-> NoWorkingDirectory]

\* the stage_info records, one per name found, in order
StageInfos(content) ==
    LET stages == FindStages(content) IN
    [i \in 1..Len(stages) |->
        [name |-> stages[i],
         type |-> StageTypeOf(stages[i]),
         commands |-> _extract_stage_commands(content, stages[i])]]

_parse_jenkinsfile(content, siblings, project_dir) ==
    LET p == DetectProject(siblings, project_dir) IN
    [stages |-> StageInfos(content),
     project_type |-> p.project_type,
     working_directory |-> p.working_directory]

-----------------------------------------------------------------------------
(* Workflow documents: nested values with ordered mappings *)

DStr(s) == [t |-> "str", s |-> s]
DBool(b) == [t |-> "bool", b |-> b]
DInt(n) == [t |-> "int", n |-> n]
DList(items) == [t |-> "list", items |-> items]
\* a dict: its (key, value) pairs in insertion order
DMap(kv) == [t |-> "map", kv |-> kv]

\* key in d
HasKey(d, key) == \E i \in 1..Len(d.kv) : d.kv[i][1] = key

\* d[key]
Get(d, key) == d.kv[CHOOSE i \in 1..Len(d.kv) : d.kv[i][1] = key][2]

\* list(d.keys())
Keys(d) == [i \in 1..Len(d.kv) |-> d.kv[i][1]]

\* d[key] = value: replaces in place, or appends a new key at the end
SetKey(d, key, value) ==
    IF HasKey(d, key)
    THEN DMap([i \in 1..Len(d.kv) |->
                 IF d.kv[i][1] = key THEN <<key, value>> ELSE d.kv[i]])
    ELSE DMap(Append(d.kv, <<key, value>>))

\* variant: seq[0]
First(seq) == seq[1]

\* seq[-1]
Last(seq) == seq[Len(seq)]

\* self.default_runner
default_runner == <<"u","b","u","n","t","u","-","l","a","t","e","s","t">>

CheckoutStep ==
    DMap(<< <<<<"n","a","m","e">>, DStr(<<"C","h","e","c","k","o","u","t"," ","c","o","d","e">>)>>,
            <<<<"u","s","e","s">>, DStr(<<"a","c","t","i","o","n","s","/","c","h","e","c","k","o","u","t","@","v","4">>)>> >>)

-----------------------------------------------------------------------------
(* Structured-document emitter *)

\* "  " * indent
RECURSIVE IndentStr(_)
IndentStr(indent) == IF indent = 0 THEN <<>> ELSE <<" ", " ">> \o IndentStr(indent - 1)

DigitChars == <<"0","1","2","3","4","5","6","7","8","9">>

\* str(n) of a natural number
RECURSIVE IntText(_)
IntText(n) ==
    IF n < 10 THEN <<DigitChars[n + 1]>>
    ELSE IntText(n \div 10) \o <<DigitChars[(n % 10) + 1]>>

\* f"{value}" of a scalar: str(value)
ScalarText(value) ==
    CASE value.t = "str" -> value.s
      [] value.t = "bool" -> (IF value.b THEN <<"T","r","u","e">> ELSE <<"F","a","l","s","e">>)
      [] value.t = "int" -> IntText(value.n)

IsSpace(c) == c \in {" ", "\n", "\t", "\r"}

\* str.strip()
RECURSIVE LStrip(_)
LStrip(s) == IF s # <<>> /\ IsSpace(Head(s)) THEN LStrip(Tail(s)) ELSE s
RECURSIVE RStrip(_)
RStrip(s) == IF s # <<>> /\ IsSpace(s[Len(s)]) THEN RStrip(SubSeq(s, 1, Len(s) - 1)) ELSE s
Strip(s) == RStrip(LStrip(s))

\* '\n' in value
HasNewline(s) == \E i \in 1..Len(s) : s[i] = "\n"

\* value.split('\n')
RECURSIVE SplitLines(_)
SplitLines(s) ==
    IF ~HasNewline(s) THEN <<s>>
    ELSE LET i == CHOOSE a \in 1..Len(s) :
                     s[a] = "\n" /\ \A b \in 1..(a - 1) : s[b] # "\n"
         IN <<SubSeq(s, 1, i - 1)>> \o SplitLines(SubSeq(s, i + 1, Len(s)))

RECURSIVE dict_to_yaml(_, _)
RECURSIVE YamlItems(_, _)
RECURSIVE YamlEntry(_, _, _)
RECURSIVE YamlListItems(_, _)

\* the lines of one element of a list value
YamlListItem(item, indent) ==
    IF item.t = "map"
    THEN LET item_lines == dict_to_yaml(item, indent + 1) IN
         IF item_lines # <<>>
         THEN <<IndentStr(indent) \o <<"-"," ">> \o Strip(item_lines[1])>> \o Tail(item_lines)
         ELSE <<IndentStr(indent) \o <<"-"," ">>>>
    ELSE <<IndentStr(indent) \o <<"-"," ">> \o ScalarText(item)>>

\* for item in value
YamlListItems(items, indent) ==
    IF items = <<>> THEN <<>>
    ELSE YamlListItem(Head(items), indent) \o YamlListItems(Tail(items), indent)

\* the lines of one (key, value) of a dict, by the type of the value
YamlEntry(key, value, indent) ==
    CASE value.t = "map" ->
            <<IndentStr(indent) \o key \o <<":">>>> \o dict_to_yaml(value, indent + 1)
      [] value.t = "list" ->
            <<IndentStr(indent) \o key \o <<":">>>> \o YamlListItems(value.items, indent)
      [] value.t = "bool" ->
            <<IndentStr(indent) \o key \o <<":"," ">> \o Lower(ScalarText(value))>>
      [] value.t = "str" /\ HasNewline(value.s) ->
            LET lines == SplitLines(value.s) IN
            <<IndentStr(indent) \o key \o <<":"," ","|">>>>
            \o [i \in 1..Len(lines) |-> IndentStr(indent) \o <<" "," ">> \o lines[i]]
      [] OTHER ->
            <<IndentStr(indent) \o key \o <<":"," ">> \o ScalarText(value)>>

\* for key, value in data.items()
YamlItems(kv, indent) ==
    IF kv = <<>> THEN <<>>
    ELSE YamlEntry(kv[1][1], kv[1][2], indent) \o YamlItems(Tail(kv), indent)

dict_to_yaml(data, indent) ==
    IF data.t = "map" THEN YamlItems(data.kv, indent) ELSE <<>>

-----------------------------------------------------------------------------
(* Workflow generator *)

\* the steps the loop of _generate_generic_jobs appends for one stage
RECURSIVE CommandSteps(_, _)
CommandSteps(name, commands) ==
    IF commands = <<>> THEN <<>>
    ELSE << DMap(<< <<<<"n","a","m","e">>, DStr(<<"R","u","n"," ">> \o name)>>,
                    <<<<"r","u","n">>, DStr(Head(commands))>> >>) >>
         \o CommandSteps(name, Tail(commands))

\* for stage in pipeline_info['stages']: for command in stage['commands']: append
RECURSIVE StageSteps(_)
StageSteps(stages) ==
    IF stages = <<>> THEN <<>>
    ELSE CommandSteps(Head(stages).name, Head(stages).commands)
         \o StageSteps(Tail(stages))

\* variant: only the commands of stages classified build become steps
GenerateGenericJobsBuildOnly(pipeline_info) ==
    DMap(<< <<<<"b","u","i","l","d","-","a","n","d","-","t","e","s","t">>,
              DMap(<< <<<<"r","u","n","s","-","o","n">>, DStr(default_runner)>>,
                      <<<<"s","t","e","p","s">>, DList(<<CheckoutStep>>
                                       \o StageSteps(SelectSeq(pipeline_info.stages,
                                              LAMBDA st : st.type = "build")))>> >>)>> >>)

_generate_generic_jobs(pipeline_info) ==
    DMap(<< <<<<"b","u","i","l","d","-","a","n","d","-","t","e","s","t">>,
              DMap(<< <<<<"r","u","n","s","-","o","n">>, DStr(default_runner)>>,
                      <<<<"s","t","e","p","s">>, DList(<<CheckoutStep>>
                                       \o StageSteps(pipeline_info.stages))>> >>)>> >>)

\* f'{working_directory + "/" if working_directory else ""}'
PathPrefix(working_directory) ==
    IF working_directory # NoWorkingDirectory
    THEN working_directory \o <<"/">>
    ELSE <<>>

\* variant: the working directory is not compared with '.'
MavenWorkingDirectoryNoDotTest(pipeline_info) ==
    LET working_dir == pipeline_info.working_directory IN
    IF working_dir # NoWorkingDirectory
    THEN <<".","/">> \o working_dir
    ELSE NoWorkingDirectory

\* the working_directory local of _generate_maven_jobs
MavenWorkingDirectory(pipeline_info) ==
    LET working_dir == pipeline_info.working_directory IN
    IF working_dir # NoWorkingDirectory /\ working_dir # <<".">>
    THEN <<".","/">> \o working_dir
    ELSE NoWorkingDirectory

\* 'run' in step and step['run'].startswith('mvn')
RunStartsWithMvn(step) ==
    HasKey(step, <<"r","u","n">>) /\ StartsWith(Get(step, <<"r","u","n">>).s, <<"m","v","n">>)

\* 'run' in step and 'mvn' in step['run']
RunContainsMvn(step) ==
    HasKey(step, <<"r","u","n">>) /\ Contains(Get(step, <<"r","u","n">>).s, <<"m","v","n">>)

\* 'run' in step and ('mvn' in step['run'] or 'java -jar' in step['run'])
RunContainsMvnOrJavaJar(step) ==
    HasKey(step, <<"r","u","n">>)
    /\ (Contains(Get(step, <<"r","u","n">>).s, <<"m","v","n">>) \/ Contains(Get(step, <<"r","u","n">>).s, <<"j","a","v","a"," ","-","j","a","r">>))

\* for step in maven_steps: if 'run' in step and step['run'].startswith('mvn'):
\*     step['working-directory'] = working_directory
AddWorkingDirectoryBuild(steps, working_directory) ==
    IF working_directory # NoWorkingDirectory
    THEN [i \in 1..Len(steps) |->
             IF RunStartsWithMvn(steps[i])
             THEN SetKey(steps[i], <<"w","o","r","k","i","n","g","-","d","i","r","e","c","t","o","r","y">>, DStr(working_directory))
             ELSE steps[i]]
    ELSE steps

\* the same loop in _create_maven_deliver_job: 'mvn' or 'java -jar' in the command
AddWorkingDirectoryDeliver(steps, working_directory) ==
    IF working_directory # NoWorkingDirectory
    THEN [i \in 1..Len(steps) |->
             IF RunContainsMvnOrJavaJar(steps[i])
             THEN SetKey(steps[i], <<"w","o","r","k","i","n","g","-","d","i","r","e","c","t","o","r","y">>, DStr(working_directory))
             ELSE steps[i]]
    ELSE steps

\* the same loop in _create_security_job: 'mvn' in the command
AddWorkingDirectorySecurity(steps, working_directory) ==
    IF working_directory # NoWorkingDirectory
    THEN [i \in 1..Len(steps) |->
             IF RunContainsMvn(steps[i])
             THEN SetKey(steps[i], <<"w","o","r","k","i","n","g","-","d","i","r","e","c","t","o","r","y">>, DStr(working_directory))
             ELSE steps[i]]
    ELSE steps

\* the three fixed leading steps of the build-and-test job
MavenSetupSteps ==
    << CheckoutStep,
       DMap(<< <<<<"n","a","m","e">>, DStr(<<"S","e","t"," ","u","p"," ","J","D","K"," ","$","{","{"," ","m","a","t","r","i","x",".","j","a","v","a","-","v","e","r","s","i","o","n"," ","}","}">>)>>,
               <<<<"u","s","e","s">>, DStr(<<"a","c","t","i","o","n","s","/","s","e","t","u","p","-","j","a","v","a","@","v","4">>)>>,
               <<<<"w","i","t","h">>, DMap(<< <<<<"j","a","v","a","-","v","e","r","s","i","o","n">>, DStr(<<"$","{","{"," ","m","a","t","r","i","x",".","j","a","v","a","-","v","e","r","s","i","o","n"," ","}","}">>)>>,
                                 <<<<"d","i","s","t","r","i","b","u","t","i","o","n">>, DStr(<<"t","e","m","u","r","i","n">>)>>,
                                 <<<<"c","a","c","h","e">>, DStr(<<"m","a","v","e","n">>)>> >>)>> >>),
       DMap(<< <<<<"n","a","m","e">>, DStr(<<"C","a","c","h","e"," ","M","a","v","e","n"," ","d","e","p","e","n","d","e","n","c","i","e","s">>)>>,
               <<<<"u","s","e","s">>, DStr(<<"a","c","t","i","o","n","s","/","c","a","c","h","e","@","v","4">>)>>,
               <<<<"w","i","t","h">>, DMap(<< <<<<"p","a","t","h">>, DStr(<<"~","/",".","m","2">>)>>,
                                 <<<<"k","e","y">>, DStr(<<"$","{","{"," ","r","u","n","n","e","r",".","o","s"," ","}","}","-","m","2","-","$","{","{"," ","h","a","s","h","F","i","l","e","s","(","'","*","*","/","p","o","m",".","x","m","l","'",")"," ","}","}">>)>>,
                                 <<<<"r","e","s","t","o","r","e","-","k","e","y","s">>, DStr(<<"$","{","{"," ","r","u","n","n","e","r",".","o","s"," ","}","}","-","m","2">>)>> >>)>> >>) >>

\* the maven_steps list before working directories are added
maven_steps(working_directory) ==
    << DMap(<< <<<<"n","a","m","e">>, DStr(<<"V","a","l","i","d","a","t","e"," ","M","a","v","e","n"," ","p","r","o","j","e","c","t">>)>>,
               <<<<"r","u","n">>, DStr(<<"m","v","n"," ","v","a","l","i","d","a","t","e">>)>> >>),
       DMap(<< <<<<"n","a","m","e">>, DStr(<<"C","o","m","p","i","l","e"," ","p","r","o","j","e","c","t">>)>>,
               <<<<"r","u","n">>, DStr(<<"m","v","n"," ","c","o","m","p","i","l","e">>)>> >>),
       DMap(<< <<<<"n","a","m","e">>, DStr(<<"R","u","n"," ","t","e","s","t","s">>)>>,
               <<<<"r","u","n">>, DStr(<<"m","v","n"," ","t","e","s","t">>)>> >>),
       DMap(<< <<<<"n","a","m","e">>, DStr(<<"G","e","n","e","r","a","t","e"," ","t","e","s","t"," ","r","e","p","o","r","t">>)>>,
               <<<<"u","s","e","s">>, DStr(<<"d","o","r","n","y","/","t","e","s","t","-","r","e","p","o","r","t","e","r","@","v","1">>)>>,
               <<<<"i","f">>, DStr(<<"s","u","c","c","e","s","s","(",")"," ","|","|"," ","f","a","i","l","u","r","e","(",")">>)>>,
               <<<<"w","i","t","h">>, DMap(<< <<<<"n","a","m","e">>, DStr(<<"M","a","v","e","n"," ","T","e","s","t","s"," ","(","J","D","K"," ","$","{","{"," ","m","a","t","r","i","x",".","j","a","v","a","-","v","e","r","s","i","o","n"," ","}","}",")">>)>>,
                                 <<<<"p","a","t","h">>, DStr(PathPrefix(working_directory)
                                                \o <<"t","a","r","g","e","t","/","s","u","r","e","f","i","r","e","-","r","e","p","o","r","t","s","/","*",".","x","m","l">>)>>,
                                 <<<<"r","e","p","o","r","t","e","r">>, DStr(<<"j","a","v","a","-","j","u","n","i","t">>)>>,
                                 <<<<"f","a","i","l","-","o","n","-","e","r","r","o","r">>, DBool(TRUE)>> >>)>> >>),
       DMap(<< <<<<"n","a","m","e">>, DStr(<<"B","u","i","l","d"," ","p","a","c","k","a","g","e">>)>>,
               <<<<"r","u","n">>, DStr(<<"m","v","n"," ","-","B"," ","-","D","s","k","i","p","T","e","s","t","s"," ","c","l","e","a","n"," ","p","a","c","k","a","g","e">>)>> >>),
       DMap(<< <<<<"n","a","m","e">>, DStr(<<"U","p","l","o","a","d"," ","b","u","i","l","d"," ","a","r","t","i","f","a","c","t","s">>)>>,
               <<<<"u","s","e","s">>, DStr(<<"a","c","t","i","o","n","s","/","u","p","l","o","a","d","-","a","r","t","i","f","a","c","t","@","v","4">>)>>,
               <<<<"i","f">>, DStr(<<"m","a","t","r","i","x",".","j","a","v","a","-","v","e","r","s","i","o","n"," ","=","="," ","'">> \o Last(java_versions) \o <<"'">>)>>,
               <<<<"w","i","t","h">>, DMap(<< <<<<"n","a","m","e">>, DStr(<<"j","a","r","-","a","r","t","i","f","a","c","t">>)>>,
                                 <<<<"p","a","t","h">>, DStr(PathPrefix(working_directory) \o <<"t","a","r","g","e","t","/","*",".","j","a","r">>)>>,
                                 <<<<"r","e","t","e","n","t","i","o","n","-","d","a","y","s">>, DInt(30)>> >>)>> >>) >>

\* the 'Set up JDK' step of the deliver and security jobs
SetupLastJdkStep ==
    DMap(<< <<<<"n","a","m","e">>, DStr(<<"S","e","t"," ","u","p"," ","J","D","K"," ">> \o Last(java_versions))>>,
            <<<<"u","s","e","s">>, DStr(<<"a","c","t","i","o","n","s","/","s","e","t","u","p","-","j","a","v","a","@","v","4">>)>>,
            <<<<"w","i","t","h">>, DMap(<< <<<<"j","a","v","a","-","v","e","r","s","i","o","n">>, DStr(Last(java_versions))>>,
                              <<<<"d","i","s","t","r","i","b","u","t","i","o","n">>, DStr(<<"t","e","m","u","r","i","n">>)>>,
                              <<<<"c","a","c","h","e">>, DStr(<<"m","a","v","e","n">>)>> >>)>> >>)

_create_maven_deliver_job(pipeline_info, working_directory) ==
    LET steps ==
          << CheckoutStep,
             SetupLastJdkStep,
             DMap(<< <<<<"n","a","m","e">>, DStr(<<"D","o","w","n","l","o","a","d"," ","b","u","i","l","d"," ","a","r","t","i","f","a","c","t","s">>)>>,
                     <<<<"u","s","e","s">>, DStr(<<"a","c","t","i","o","n","s","/","d","o","w","n","l","o","a","d","-","a","r","t","i","f","a","c","t","@","v","4">>)>>,
                     <<<<"w","i","t","h">>, DMap(<< <<<<"n","a","m","e">>, DStr(<<"j","a","r","-","a","r","t","i","f","a","c","t">>)>>,
                                       <<<<"p","a","t","h">>, DStr(PathPrefix(working_directory) \o <<"t","a","r","g","e","t","/">>)>> >>)>> >>),
             DMap(<< <<<<"n","a","m","e">>, DStr(<<"I","n","s","t","a","l","l"," ","t","o"," ","l","o","c","a","l"," ","r","e","p","o","s","i","t","o","r","y">>)>>,
                     <<<<"r","u","n">>, DStr(<<"e","c","h","o"," ","\"","I","n","s","t","a","l","l","i","n","g"," ","M","a","v","e","n","-","b","u","i","l","t"," ","J","a","v","a"," ","a","p","p","l","i","c","a","t","i","o","n"," ","t","o"," ","l","o","c","a","l"," ","M","a","v","e","n"," ","r","e","p","o","s","i","t","o","r","y","\"","\n","m","v","n"," ","j","a","r",":","j","a","r"," ","i","n","s","t","a","l","l",":","i","n","s","t","a","l","l"," ","h","e","l","p",":","e","v","a","l","u","a","t","e"," ","-","D","e","x","p","r","e","s","s","i","o","n","=","p","r","o","j","e","c","t",".","n","a","m","e">>)>> >>),
             DMap(<< <<<<"n","a","m","e">>, DStr(<<"E","x","t","r","a","c","t"," ","p","r","o","j","e","c","t"," ","i","n","f","o","r","m","a","t","i","o","n">>)>>,
                     <<<<"i","d">>, DStr(<<"p","r","o","j","e","c","t","-","i","n","f","o">>)>>,
                     <<<<"r","u","n">>, DStr(<<"e","c","h","o"," ","\"","E","x","t","r","a","c","t","i","n","g"," ","p","r","o","j","e","c","t"," ","n","a","m","e"," ","a","n","d"," ","v","e","r","s","i","o","n","\"","\n","N","A","M","E","=","$","(","m","v","n"," ","-","q"," ","-","D","f","o","r","c","e","S","t","d","o","u","t"," ","h","e","l","p",":","e","v","a","l","u","a","t","e"," ","-","D","e","x","p","r","e","s","s","i","o","n","=","p","r","o","j","e","c","t",".","n","a","m","e",")","\n","V","E","R","S","I","O","N","=","$","(","m","v","n"," ","-","q"," ","-","D","f","o","r","c","e","S","t","d","o","u","t"," ","h","e","l","p",":","e","v","a","l","u","a","t","e"," ","-","D","e","x","p","r","e","s","s","i","o","n","=","p","r","o","j","e","c","t",".","v","e","r","s","i","o","n",")","\n","e","c","h","o"," ","\"","P","R","O","J","E","C","T","_","N","A","M","E","=","$","N","A","M","E","\""," ",">",">"," ","$","G","I","T","H","U","B","_","O","U","T","P","U","T","\n","e","c","h","o"," ","\"","P","R","O","J","E","C","T","_","V","E","R","S","I","O","N","=","$","V","E","R","S","I","O","N","\""," ",">",">"," ","$","G","I","T","H","U","B","_","O","U","T","P","U","T","\n","e","c","h","o"," ","\"","P","r","o","j","e","c","t",":"," ","$","N","A","M","E","\"","\n","e","c","h","o"," ","\"","V","e","r","s","i","o","n",":"," ","$","V","E","R","S","I","O","N","\"">>)>> >>),
             DMap(<< <<<<"n","a","m","e">>, DStr(<<"R","u","n"," ","a","p","p","l","i","c","a","t","i","o","n">>)>>,
                     <<<<"r","u","n">>, DStr(<<"e","c","h","o"," ","\"","R","u","n","n","i","n","g"," ","t","h","e"," ","J","a","v","a"," ","a","p","p","l","i","c","a","t","i","o","n","\"","\n","j","a","v","a"," ","-","j","a","r"," ","t","a","r","g","e","t","/","$","{","{"," ","s","t","e","p","s",".","p","r","o","j","e","c","t","-","i","n","f","o",".","o","u","t","p","u","t","s",".","P","R","O","J","E","C","T","_","N","A","M","E"," ","}","}","-","$","{","{"," ","s","t","e","p","s",".","p","r","o","j","e","c","t","-","i","n","f","o",".","o","u","t","p","u","t","s",".","P","R","O","J","E","C","T","_","V","E","R","S","I","O","N"," ","}","}",".","j","a","r">>)>> >>) >>
    IN DMap(<< <<<<"n","e","e","d","s">>, DStr(<<"b","u","i","l","d","-","a","n","d","-","t","e","s","t">>)>>,
               <<<<"r","u","n","s","-","o","n">>, DStr(default_runner)>>,
               <<<<"i","f">>, DStr(<<"g","i","t","h","u","b",".","r","e","f"," ","=","="," ","'","r","e","f","s","/","h","e","a","d","s","/","m","a","i","n","'">>)>>,
               <<<<"s","t","e","p","s">>, DList(AddWorkingDirectoryDeliver(steps, working_directory))>> >>)

_create_security_job(pipeline_info, working_directory) ==
    LET steps ==
          << CheckoutStep,
             SetupLastJdkStep,
             DMap(<< <<<<"n","a","m","e">>, DStr(<<"R","u","n"," ","O","W","A","S","P"," ","D","e","p","e","n","d","e","n","c","y"," ","C","h","e","c","k">>)>>,
                     <<<<"r","u","n">>, DStr(<<"m","v","n"," ","o","r","g",".","o","w","a","s","p",":","d","e","p","e","n","d","e","n","c","y","-","c","h","e","c","k","-","m","a","v","e","n",":","c","h","e","c","k">>)>>,
                     <<<<"c","o","n","t","i","n","u","e","-","o","n","-","e","r","r","o","r">>, DBool(TRUE)>> >>),
             DMap(<< <<<<"n","a","m","e">>, DStr(<<"U","p","l","o","a","d"," ","O","W","A","S","P"," ","D","e","p","e","n","d","e","n","c","y"," ","C","h","e","c","k"," ","r","e","s","u","l","t","s">>)>>,
                     <<<<"u","s","e","s">>, DStr(<<"a","c","t","i","o","n","s","/","u","p","l","o","a","d","-","a","r","t","i","f","a","c","t","@","v","4">>)>>,
                     <<<<"i","f">>, DStr(<<"a","l","w","a","y","s","(",")">>)>>,
                     <<<<"w","i","t","h">>, DMap(<< <<<<"n","a","m","e">>, DStr(<<"o","w","a","s","p","-","d","e","p","e","n","d","e","n","c","y","-","c","h","e","c","k","-","r","e","p","o","r","t">>)>>,
                                       <<<<"p","a","t","h">>, DStr(PathPrefix(working_directory)
                                                      \o <<"t","a","r","g","e","t","/","d","e","p","e","n","d","e","n","c","y","-","c","h","e","c","k","-","r","e","p","o","r","t",".","h","t","m","l">>)>>,
                                       <<<<"r","e","t","e","n","t","i","o","n","-","d","a","y","s">>, DInt(30)>> >>)>> >>) >>
    IN DMap(<< <<<<"r","u","n","s","-","o","n">>, DStr(default_runner)>>,
               <<<<"n","e","e","d","s">>, DStr(<<"b","u","i","l","d","-","a","n","d","-","t","e","s","t">>)>>,
               <<<<"s","t","e","p","s">>, DList(AddWorkingDirectorySecurity(steps, working_directory))>> >>)

\* variant: the stage type is compared with 'deploy', a type no stage has
HasDeployStage(pipeline_info) ==
    \E i \in 1..Len(pipeline_info.stages) : pipeline_info.stages[i].type = "deploy"

\* any(stage['type'] == 'deliver' for stage in pipeline_info['stages'])
has_deliver_stage(pipeline_info) ==
    \E i \in 1..Len(pipeline_info.stages) : pipeline_info.stages[i].type = "deliver"

_generate_maven_jobs(pipeline_info) ==
    LET working_directory == MavenWorkingDirectory(pipeline_info)
        build_and_test ==
          DMap(<< <<<<"r","u","n","s","-","o","n">>, DStr(default_runner)>>,
                  <<<<"s","t","r","a","t","e","g","y">>, DMap(<< <<<<"m","a","t","r","i","x">>,
                       DMap(<< <<<<"j","a","v","a","-","v","e","r","s","i","o","n">>,
                                 DList([i \in 1..Len(java_versions) |->
                                           DStr(java_versions[i])])>> >>)>> >>)>>,
                  <<<<"s","t","e","p","s">>, DList(MavenSetupSteps
                                   \o AddWorkingDirectoryBuild(maven_steps(working_directory),
                                                               working_directory))>> >>)
    IN DMap(<< <<<<"b","u","i","l","d","-","a","n","d","-","t","e","s","t">>, build_and_test>> >>
            \o (IF has_deliver_stage(pipeline_info)
                THEN << <<<<"d","e","l","i","v","e","r">>,
                          _create_maven_deliver_job(pipeline_info, working_directory)>> >>
                ELSE <<>>)
            \o << <<<<"s","e","c","u","r","i","t","y","-","s","c","a","n">>,
                    _create_security_job(pipeline_info, working_directory)>> >>)

_generate_gha_workflow(pipeline_info) ==
    DMap(<< <<<<"n","a","m","e">>, DStr(<<"C","I","/","C","D"," ","P","i","p","e","l","i","n","e">>)>>,
            <<<<"o","n">>, DMap(<< <<<<"p","u","s","h">>, DMap(<< <<<<"b","r","a","n","c","h","e","s">>,
                                 DList(<<DStr(<<"m","a","i","n">>), DStr(<<"d","e","v","e","l","o","p">>)>>)>> >>)>>,
                            <<<<"p","u","l","l","_","r","e","q","u","e","s","t">>, DMap(<< <<<<"b","r","a","n","c","h","e","s">>,
                                 DList(<<DStr(<<"m","a","i","n">>)>>)>> >>)>> >>)>>,
            <<<<"j","o","b","s">>, IF pipeline_info.project_type = "maven"
                      THEN _generate_maven_jobs(pipeline_info)
                      ELSE _generate_generic_jobs(pipeline_info)>> >>)

-----------------------------------------------------------------------------
(* Idle values: what the variables of one part hold in the specifications   *)
(* of the other parts                                                       *)

EmptyTree == <<>>
NoInfo == [stages |-> <<>>, project_type |-> "", working_directory |-> NoWorkingDirectory]
NoWorkflow == DMap(<<>>)

\* main(): --java-versions, default ['17', '21']
DefaultJavaVersions == <<<<"1","7">>, <<"2","1">>>>

RunIdle ==
    /\ inputKind = "missing"
    /\ inFS = EmptyTree
    /\ outFS = EmptyTree
    /\ out0 = EmptyTree
    /\ pc = "idle"
    /\ jenkinsfiles = <<>>
    /\ idx = 0
    /\ log = <<>>
    /\ exitCode = -1
    /\ run = 0
    /\ scan_order = <<>>

ClassifyIdle ==
    /\ c_name = <<>>
    /\ c_type = ""

GenIdle ==
    /\ g_content = <<>>
    /\ g_markers = {}
    /\ g_dir = <<>>
    /\ g_info = NoInfo
    /\ g_workflow = NoWorkflow
    /\ g_pc = "idle"

YamlIdle ==
    /\ y_data = NoWorkflow
    /\ y_lines = <<>>
    /\ y_pc = "idle"

-----------------------------------------------------------------------------
(* Classifier harness: _parse_jenkinsfile classifying one stage name *)

InitClassify ==
    /\ c_name \in StageNames
    /\ c_type = ""
    /\ java_versions = DefaultJavaVersions
    /\ RunIdle
    /\ GenIdle
    /\ YamlIdle

\* 'type': self._classify_stage(stage.lower())
Classify ==
    /\ c_type = ""
    /\ c_type' = StageTypeOf(c_name)
    /\ UNCHANGED <<c_name, java_versions>>
    /\ UNCHANGED runVars
    /\ UNCHANGED genVars
    /\ UNCHANGED yamlVars

NextClassify == Classify

SpecClassify == InitClassify /\ [][NextClassify]_vars

-----------------------------------------------------------------------------
(* Generator harness: one pipeline text parsed, then generated *)

N_app == <<"a","p","p">>

S_Build == <<"B","u","i","l","d">>
S_Deploy == <<"D","e","p","l","o","y"," ","t","o"," ","P","r","o","d">>
Cmd_make == <<"m","a","k","e"," ","a","l","l">>

\* the tokens pipeline texts of the harness are made of
GenTokens == { StageTok(S_Build), StageTok(S_Deploy), ShTok(Cmd_make), CloseTok, OtherTok }

GenContents == UNION { [1..n -> GenTokens] : n \in 0..MaxTokens }

\* where the pipeline file lies and which marker files lie beside it
GenProjects ==
    { [dir |-> <<>>, markers |-> {}],
      [dir |-> <<N_app>>, markers |-> {}],
      [dir |-> <<>>, markers |-> {N_pom}],
      [dir |-> <<N_app>>, markers |-> {N_pom}],
      [dir |-> <<>>, markers |-> {N_pom, N_gradle}],
      [dir |-> <<N_app>>, markers |-> {N_gradle_kts}],
      [dir |-> <<N_app>>, markers |-> {N_package_json}] }

\* values of --java-versions (nargs='+': at least one)
JavaVersionChoices ==
    { DefaultJavaVersions, <<<<"1","1">>, <<"1","7">>>>, <<<<"2","1">>>>, <<<<"8">>, <<"1","1">>, <<"1","7">>>> }

InitGen ==
    /\ g_content \in GenContents
    /\ \E project \in GenProjects :
          /\ g_markers = project.markers
          /\ g_dir = project.dir
          /\ java_versions \in (IF N_pom \in project.markers
                                THEN JavaVersionChoices
                                ELSE {DefaultJavaVersions})
    /\ g_info = NoInfo
    /\ g_workflow = NoWorkflow
    /\ g_pc = "init"
    /\ RunIdle
    /\ ClassifyIdle
    /\ YamlIdle

\* pipeline_info = self._parse_jenkinsfile(content, jenkinsfile)
Parse ==
    /\ g_pc = "init"
    /\ g_info' = _parse_jenkinsfile(g_content, g_markers, g_dir)
    /\ g_pc' = "parsed"
    /\ UNCHANGED <<g_content, g_markers, g_dir, g_workflow, java_versions>>
    /\ UNCHANGED runVars
    /\ UNCHANGED classifyVars
    /\ UNCHANGED yamlVars

\* workflow = self._generate_gha_workflow(pipeline_info)
Generate ==
    /\ g_pc = "parsed"
    /\ g_workflow' = _generate_gha_workflow(g_info)
    /\ g_pc' = "generated"
    /\ UNCHANGED <<g_content, g_markers, g_dir, g_info, java_versions>>
    /\ UNCHANGED runVars
    /\ UNCHANGED classifyVars
    /\ UNCHANGED yamlVars

NextGen == Parse \/ Generate

SpecGen == InitGen /\ [][NextGen]_vars

-----------------------------------------------------------------------------
(* Claims about the classifier and the generator *)

\* the lower-cased stage name contains a keyword of the set
NameHas(keywords) == \E kw \in keywords : Contains(Lower(c_name), kw)

\* C8: _classify_stage is total on the lower-cased stage name; the keyword sets
\* are tried in the order build, test, deliver, security and the first set
\* with a keyword occurring as a substring wins; no keyword yields build.
\* 'build and test' is build, 'run tests' is test, 'deploy to prod' is deliver,
\* 'security audit' is security, 'lint' is build.
C8_ClassifyPriority ==
    c_type # "" =>
        /\ c_type \in {"build", "test", "deliver", "security"}
        /\ (c_type = "build") <=>
              (NameHas(build_keywords)
               \/ ~(NameHas(test_keywords) \/ NameHas(deploy_keywords)
                    \/ NameHas(security_keywords)))
        /\ (c_type = "test") <=> (~NameHas(build_keywords) /\ NameHas(test_keywords))
        /\ (c_type = "deliver") <=>
              (~NameHas(build_keywords) /\ ~NameHas(test_keywords)
               /\ NameHas(deploy_keywords))
        /\ (c_type = "security") <=>
              (~NameHas(build_keywords) /\ ~NameHas(test_keywords)
               /\ ~NameHas(deploy_keywords) /\ NameHas(security_keywords))
        /\ (c_name = <<"B","u","i","l","d"," ","a","n","d"," ","T","e","s","t">> => c_type = "build")
        /\ (c_name = <<"R","u","n"," ","T","e","s","t","s">> => c_type = "test")
        /\ (c_name = <<"D","e","p","l","o","y"," ","t","o"," ","P","r","o","d">> => c_type = "deliver")
        /\ (c_name = <<"S","e","c","u","r","i","t","y"," ","A","u","d","i","t">> => c_type = "security")
        /\ (c_name = <<"L","i","n","t">> => c_type = "build")

\* C8 witness: 'Build and Test', holding a build and a test keyword, was classified
C8_Witness == c_name = <<"B","u","i","l","d"," ","a","n","d"," ","T","e","s","t">> /\ c_type = "build"

\* the keys of the jobs mapping of the generated workflow
GenJobKeys == Keys(Get(g_workflow, <<"j","o","b","s">>))

\* the members of a sequence
Range(seq) == { seq[i] : i \in 1..Len(seq) }

\* C9: for project type maven the jobs mapping holds build-and-test and
\* security-scan, holds deliver exactly when some extracted stage has type
\* deliver, and holds no other key.
C9_MavenJobKeys ==
    (g_pc = "generated" /\ g_info.project_type = "maven") =>
        /\ <<"b","u","i","l","d","-","a","n","d","-","t","e","s","t">> \in Range(GenJobKeys)
        /\ <<"s","e","c","u","r","i","t","y","-","s","c","a","n">> \in Range(GenJobKeys)
        /\ (<<"d","e","l","i","v","e","r">> \in Range(GenJobKeys)) <=>
              (\E i \in 1..Len(g_info.stages) : g_info.stages[i].type = "deliver")
        /\ Range(GenJobKeys) \subseteq {<<"b","u","i","l","d","-","a","n","d","-","t","e","s","t">>, <<"d","e","l","i","v","e","r">>, <<"s","e","c","u","r","i","t","y","-","s","c","a","n">>}
        /\ Cardinality(Range(GenJobKeys)) = Len(GenJobKeys)

\* C9 witness: a maven pipeline with a deliver stage was generated, with its deliver job
C9_Witness ==
    /\ g_pc = "generated"
    /\ g_info.project_type = "maven"
    /\ \E i \in 1..Len(g_info.stages) : g_info.stages[i].type = "deliver"
    /\ GenJobKeys = <<<<"b","u","i","l","d","-","a","n","d","-","t","e","s","t">>, "deliver", "security-scan">>

\* number of commands of the first n stages
RECURSIVE CommandsBefore(_, _)
CommandsBefore(stages, n) ==
    IF n = 0 THEN 0 ELSE CommandsBefore(stages, n - 1) + Len(stages[n].commands)

\* the steps of the only job of a generic workflow
GenSteps == Get(Get(Get(g_workflow, <<"j","o","b","s">>), <<"b","u","i","l","d","-","a","n","d","-","t","e","s","t">>), <<"s","t","e","p","s">>).items

C10_WitnessNoStage ==
    /\ g_pc = "generated"
    /\ g_info.project_type = "generic"
    /\ g_content # <<>>
    /\ g_info.stages = <<>>
    /\ Len(GenSteps) = 1

-----------------------------------------------------------------------------
(* File trees *)

File(content) == [kind |-> "file", content |-> content]
Dir == [kind |-> "dir", content |-> [t |-> "none"]]

\* contents: an opaque file, a pipeline text, bytes that are not UTF-8,
\* and the text written for a workflow
Raw(id) == [t |-> "raw", id |-> id]
Text(tokens) == [t |-> "text", tokens |-> tokens]
Binary == [t |-> "binary"]
Written(text) == [t |-> "written", text |-> text]

\* Path.parent and Path.name of a relative path
Parent(path) == SubSeq(path, 1, Len(path) - 1)
Name(path) == path[Len(path)]

IsProperPrefix(a, b) == Len(a) < Len(b) /\ SubSeq(b, 1, Len(a)) = a

Exists(fs, path) == path \in DOMAIN fs
IsFile(fs, path) == path \in DOMAIN fs /\ fs[path].kind = "file"
IsDir(fs, path) == path \in DOMAIN fs /\ fs[path].kind = "dir"

N_Jenkinsfile == <<"J","e","n","k","i","n","s","f","i","l","e">>
N_jenkinsfile == <<"j","e","n","k","i","n","s","f","i","l","e">>
N_Jenkinsfile_groovy == <<"J","e","n","k","i","n","s","f","i","l","e",".","g","r","o","o","v","y">>
N_github == <<".","g","i","t","h","u","b">>
N_workflows == <<"w","o","r","k","f","l","o","w","s">>

\* self.workflows_dir, relative to self.output_path
workflows_dir == <<N_github, N_workflows>>

\* '\n'.join(yaml_content) + '\n': the text written, held as the sequence of
\* its newline-terminated pieces (a single newline when there is no line)
JoinLines(lines) ==
    IF lines = <<>> THEN << <<"\n">> >>
    ELSE [i \in 1..Len(lines) |-> lines[i] \o <<"\n">>]

-----------------------------------------------------------------------------
(* _setup_output_directory *)

\* the directories mkdir(parents=True, exist_ok=True) needs: the output root,
\* .github and .github/workflows
MkdirPaths == { <<>>, <<N_github>>, workflows_dir }

\* mkdir raises when one of them exists and is not a directory
MkdirFails(fs) == \E p \in MkdirPaths : IsFile(fs, p)

Mkdirs(fs) == [p \in (DOMAIN fs) \cup MkdirPaths |-> IF p \in DOMAIN fs THEN fs[p] ELSE Dir]

-----------------------------------------------------------------------------
(* _find_jenkinsfiles *)

jenkinsfile_names == { N_Jenkinsfile, N_jenkinsfile, N_Jenkinsfile_groovy }

\* dirs[:] = [d for d in dirs if not d.startswith('.git')]: the walk does not
\* descend into such a directory
Pruned(path) == \E i \in 1..(Len(path) - 1) : StartsWith(path[i], <<".","g","i","t">>)

\* the files the walk appends
FoundJenkinsfiles(fs) ==
    { p \in DOMAIN fs : IsFile(fs, p) /\ Name(p) \in jenkinsfile_names /\ ~Pruned(p) }

\* os.walk is top-down: the files of a directory come before those of its
\* subdirectories, and a subtree is walked to its end before the next one;
\* the order among siblings is that of the directory listing, which is arbitrary
IsWalkOrder(seq) ==
    /\ \A i, j \in 1..Len(seq) :
          i < j => ~IsProperPrefix(Parent(seq[j]), Parent(seq[i]))
    /\ \A i, j, k \in 1..Len(seq) :
          (i < j /\ j < k) =>
             \A m \in 0..Len(Parent(seq[i])) :
                (m <= Len(Parent(seq[k]))
                 /\ SubSeq(seq[i], 1, m) = SubSeq(seq[k], 1, m))
                => (m <= Len(Parent(seq[j]))
                    /\ SubSeq(seq[j], 1, m) = SubSeq(seq[i], 1, m))

WalkOrders(found) ==
    { seq \in [1..Cardinality(found) -> found] :
        /\ \A i, j \in 1..Cardinality(found) : i # j => seq[i] # seq[j]
        /\ IsWalkOrder(seq) }

-----------------------------------------------------------------------------
(* _generate_workflow_name and the write of the workflow file *)

\* relative_path.parent.name: '' at the root
ParentName(relative_path) ==
    IF Parent(relative_path) = <<>> THEN <<>> ELSE Name(Parent(relative_path))

_generate_workflow_name(relative_path) ==
    IF ParentName(relative_path) # <<>> /\ ParentName(relative_path) # <<".">>
    THEN <<"c","i","-">> \o ReplaceSpaceHyphen(Lower(ParentName(relative_path)))
    ELSE <<"c","i">>

\* self.workflows_dir / f"{workflow_name}.yml"
WorkflowFile(jenkinsfile) ==
    Append(workflows_dir, _generate_workflow_name(jenkinsfile) \o <<".","y","m","l">>)

\* the names beside the pipeline file: what (project_dir / name).exists() sees
Siblings(fs, jenkinsfile) ==
    { Name(p) : p \in { q \in DOMAIN fs : Parent(q) = Parent(jenkinsfile) } }

\* the text _convert_jenkinsfile writes for a readable pipeline file
WorkflowText(fs, jenkinsfile) ==
    LET pipeline_info == _parse_jenkinsfile(fs[jenkinsfile].content.tokens,
                                            Siblings(fs, jenkinsfile),
                                            Parent(jenkinsfile))
        workflow == _generate_gha_workflow(pipeline_info)
    IN JoinLines(dict_to_yaml(workflow, 0))

\* open(jenkinsfile, 'r', encoding='utf-8').read() raises UnicodeDecodeError
ReadFails(fs, jenkinsfile) == fs[jenkinsfile].content.t # "text"

\* open(workflow_file, 'w') raises when the path is a directory or its
\* directory is missing
WriteFails(fs, path) == IsDir(fs, path) \/ ~IsDir(fs, Parent(path))

\* variant: the file is opened with mode 'a', the text is appended
WriteFileAppend(fs, path, text) ==
    [p \in (DOMAIN fs) \cup {path} |->
        IF p = path
        THEN (IF IsFile(fs, path) /\ fs[path].content.t = "written"
              THEN File(Written(fs[path].content.text \o text))
              ELSE File(Written(text)))
        ELSE fs[p]]

\* the tree after open(workflow_file, 'w') and f.write(text)
WriteFile(fs, path, text) ==
    [p \in (DOMAIN fs) \cup {path} |-> IF p = path THEN File(Written(text)) ELSE fs[p]]

-----------------------------------------------------------------------------
(* _copy_source_code *)

exclude_patterns ==
    << <<"J","e","n","k","i","n","s","f","i","l","e","*">>, <<"j","e","n","k","i","n","s","/">>, <<".","g","i","t","/">>, <<"_","_","p","y","c","a","c","h","e","_","_","/">>, <<"*",".","p","y","c">>,
       <<".","D","S","_","S","t","o","r","e">>, <<"T","h","u","m","b","s",".","d","b">> >>

\* ch in s
HasChar(s, ch) == \E i \in 1..Len(s) : s[i] = ch

\* s.replace(ch, '')
Without(s, ch) == SelectSeq(s, LAMBDA c : c # ch)

\* fnmatch of a name against a pattern whose only wildcard is '*'
RECURSIVE FnMatch(_, _)
FnMatch(name, pattern) ==
    IF pattern = <<>> THEN name = <<>>
    ELSE IF Head(pattern) = "*"
         THEN FnMatch(name, Tail(pattern))
              \/ (name # <<>> /\ FnMatch(Tail(name), pattern))
         ELSE name # <<>> /\ Head(name) = Head(pattern)
              /\ FnMatch(Tail(name), Tail(pattern))

\* the two tests that make the loop skip a top-level file
TopFileSkipped(name) ==
    \/ \E i \in 1..Len(exclude_patterns) :
          /\ ~HasChar(exclude_patterns[i], "*")
          /\ Contains(name, Without(exclude_patterns[i], "*"))
    \/ \E i \in 1..Len(exclude_patterns) :
          /\ HasChar(exclude_patterns[i], "*")
          /\ StartsWith(name, Without(exclude_patterns[i], "*"))

\* the test that makes the loop skip a top-level directory
TopDirSkipped(name) ==
    \E i \in 1..Len(exclude_patterns) :
       /\ HasChar(exclude_patterns[i], "/")
       /\ Without(exclude_patterns[i], "/") = name

\* shutil.ignore_patterns(*exclude_patterns): names copytree leaves out
Ignored(name) == \E i \in 1..Len(exclude_patterns) : FnMatch(name, exclude_patterns[i])

\* variant: the destination is not tested for existence before copying
CopiedPathsNoExistsCheck(src, dst) ==
    { p \in DOMAIN src :
        /\ ~StartsWith(p[1], <<".","g","i","t">>)
        /\ IF IsFile(src, <<p[1]>>)
           THEN ~TopFileSkipped(p[1])
           ELSE ~TopDirSkipped(p[1]) /\ \A i \in 2..Len(p) : ~Ignored(p[i]) }

\* the paths of the input tree that the loop copies: a top-level file by
\* shutil.copy2, a top-level directory with what copytree takes of it
CopiedPaths(src, dst) ==
    { p \in DOMAIN src :
        /\ ~StartsWith(p[1], <<".","g","i","t">>)
        /\ ~Exists(dst, <<p[1]>>)
        /\ IF IsFile(src, <<p[1]>>)
           THEN ~TopFileSkipped(p[1])
           ELSE ~TopDirSkipped(p[1]) /\ \A i \in 2..Len(p) : ~Ignored(p[i]) }

\* the output tree after the loop
CopyTree(src, dst) ==
    [p \in (DOMAIN dst) \cup CopiedPaths(src, dst) |->
        IF p \in CopiedPaths(src, dst) THEN src[p] ELSE dst[p]]

-----------------------------------------------------------------------------
(* Logging *)

LogRec(level, event, path) == [level |-> level, event |-> event, path |-> path]

-----------------------------------------------------------------------------
(* The run: main() calling convert() *)

\* convert(): logger.info, then self._setup_output_directory(); a mkdir error
\* leaves convert() and main() returns 1
SetupOutputDirectory ==
    /\ pc = "start"
    /\ IF MkdirFails(outFS)
       THEN /\ outFS' = outFS
            /\ log' = log \o << LogRec("INFO", "starting", <<>>),
                                LogRec("ERROR", "conversion_failed", <<>>) >>
            /\ pc' = "done"
            /\ exitCode' = 1
       ELSE /\ outFS' = Mkdirs(outFS)
            /\ log' = log \o << LogRec("INFO", "starting", <<>>),
                                LogRec("INFO", "created_workflows_dir", workflows_dir) >>
            /\ pc' = "find"
            /\ exitCode' = exitCode
    /\ UNCHANGED <<inputKind, inFS, out0, jenkinsfiles, idx, run, scan_order, java_versions>>
    /\ UNCHANGED classifyVars
    /\ UNCHANGED genVars
    /\ UNCHANGED yamlVars

\* variant: with no pipeline file found convert() warns but does not return
FindJenkinsfilesNoReturn ==
    /\ pc = "find"
    /\ \E seq \in WalkOrders(IF inputKind = "dir" THEN FoundJenkinsfiles(inFS) ELSE {}) :
          /\ (run = 1 \/ seq = scan_order)
          /\ scan_order' = seq
          /\ jenkinsfiles' = seq
          /\ IF seq = <<>>
             THEN /\ log' = log \o << LogRec("INFO", "found", <<>>),
                                      LogRec("WARNING", "no_jenkinsfiles", <<>>) >>
                  /\ pc' = "copy"
                  /\ idx' = idx
             ELSE /\ log' = Append(log, LogRec("INFO", "found", <<>>))
                  /\ pc' = "convert"
                  /\ idx' = 1
    /\ UNCHANGED <<inputKind, inFS, outFS, out0, exitCode, run, java_versions>>
    /\ UNCHANGED classifyVars
    /\ UNCHANGED genVars
    /\ UNCHANGED yamlVars

\* jenkinsfiles = self._find_jenkinsfiles(); with none found convert() warns
\* and returns, and main() prints its success message and returns 0
FindJenkinsfiles ==
    /\ pc = "find"
    /\ \E seq \in WalkOrders(IF inputKind = "dir" THEN FoundJenkinsfiles(inFS) ELSE {}) :
          /\ (run = 1 \/ seq = scan_order)
          /\ scan_order' = seq
          /\ jenkinsfiles' = seq
          /\ IF seq = <<>>
             THEN /\ log' = log \o << LogRec("INFO", "found", <<>>),
                                      LogRec("WARNING", "no_jenkinsfiles", <<>>) >>
                  /\ pc' = "done"
                  /\ exitCode' = 0
                  /\ idx' = idx
             ELSE /\ log' = Append(log, LogRec("INFO", "found", <<>>))
                  /\ pc' = "convert"
                  /\ exitCode' = exitCode
                  /\ idx' = 1
    /\ UNCHANGED <<inputKind, inFS, outFS, out0, run, java_versions>>
    /\ UNCHANGED classifyVars
    /\ UNCHANGED genVars
    /\ UNCHANGED yamlVars

\* variant: the read of the pipeline file is outside the try block, so a read
\* error leaves convert() and main() returns 1
ConvertJenkinsfileReadUncaught ==
    /\ pc = "convert"
    /\ idx <= Len(jenkinsfiles)
    /\ LET jenkinsfile == jenkinsfiles[idx]
           workflow_file == WorkflowFile(jenkinsfile)
       IN IF ReadFails(inFS, jenkinsfile)
          THEN /\ outFS' = outFS
               /\ log' = log \o << LogRec("INFO", "converting", jenkinsfile),
                                   LogRec("ERROR", "conversion_failed", <<>>) >>
               /\ pc' = "done"
               /\ exitCode' = 1
          ELSE /\ IF WriteFails(outFS, workflow_file)
                  THEN /\ outFS' = outFS
                       /\ log' = log \o << LogRec("INFO", "converting", jenkinsfile),
                                           LogRec("ERROR", "error_converting", jenkinsfile) >>
                  ELSE /\ outFS' = WriteFile(outFS, workflow_file,
                                             WorkflowText(inFS, jenkinsfile))
                       /\ log' = log \o << LogRec("INFO", "converting", jenkinsfile),
                                           LogRec("INFO", "generated", workflow_file) >>
               /\ pc' = IF idx = Len(jenkinsfiles) THEN "copy" ELSE "convert"
               /\ exitCode' = exitCode
    /\ idx' = idx + 1
    /\ UNCHANGED <<inputKind, inFS, out0, jenkinsfiles, run, scan_order, java_versions>>
    /\ UNCHANGED classifyVars
    /\ UNCHANGED genVars
    /\ UNCHANGED yamlVars

\* variant: the write of the workflow file is outside the try block, so a write
\* error leaves convert() and main() returns 1
ConvertJenkinsfileWriteUncaught ==
    /\ pc = "convert"
    /\ idx <= Len(jenkinsfiles)
    /\ LET jenkinsfile == jenkinsfiles[idx]
           workflow_file == WorkflowFile(jenkinsfile)
       IN IF ReadFails(inFS, jenkinsfile)
          THEN /\ outFS' = outFS
               /\ log' = log \o << LogRec("INFO", "converting", jenkinsfile),
                                   LogRec("ERROR", "error_converting", jenkinsfile) >>
               /\ pc' = IF idx = Len(jenkinsfiles) THEN "copy" ELSE "convert"
               /\ exitCode' = exitCode
          ELSE IF WriteFails(outFS, workflow_file)
          THEN /\ outFS' = outFS
               /\ log' = log \o << LogRec("INFO", "converting", jenkinsfile),
                                   LogRec("ERROR", "conversion_failed", <<>>) >>
               /\ pc' = "done"
               /\ exitCode' = 1
          ELSE /\ outFS' = WriteFile(outFS, workflow_file, WorkflowText(inFS, jenkinsfile))
               /\ log' = log \o << LogRec("INFO", "converting", jenkinsfile),
                                   LogRec("INFO", "generated", workflow_file) >>
               /\ pc' = IF idx = Len(jenkinsfiles) THEN "copy" ELSE "convert"
               /\ exitCode' = exitCode
    /\ idx' = idx + 1
    /\ UNCHANGED <<inputKind, inFS, out0, jenkinsfiles, run, scan_order, java_versions>>
    /\ UNCHANGED classifyVars
    /\ UNCHANGED genVars
    /\ UNCHANGED yamlVars

\* one turn of "for jenkinsfile in jenkinsfiles: self._convert_jenkinsfile(jenkinsfile)";
\* every exception of the body is caught and logged
ConvertJenkinsfile ==
    /\ pc = "convert"
    /\ idx <= Len(jenkinsfiles)
    /\ LET jenkinsfile == jenkinsfiles[idx]
           workflow_file == WorkflowFile(jenkinsfile)
       IN IF ReadFails(inFS, jenkinsfile) \/ WriteFails(outFS, workflow_file)
          THEN /\ outFS' = outFS
               /\ log' = log \o << LogRec("INFO", "converting", jenkinsfile),
                                   LogRec("ERROR", "error_converting", jenkinsfile) >>
          ELSE /\ outFS' = WriteFile(outFS, workflow_file, WorkflowText(inFS, jenkinsfile))
               /\ log' = log \o << LogRec("INFO", "converting", jenkinsfile),
                                   LogRec("INFO", "generated", workflow_file) >>
    /\ idx' = idx + 1
    /\ pc' = IF idx = Len(jenkinsfiles) THEN "copy" ELSE "convert"
    /\ UNCHANGED <<inputKind, inFS, out0, jenkinsfiles, exitCode, run, scan_order, java_versions>>
    /\ UNCHANGED classifyVars
    /\ UNCHANGED genVars
    /\ UNCHANGED yamlVars

\* self._copy_source_code(), the last log line of convert(), and main() returning 0
CopySourceCode ==
    /\ pc = "copy"
    /\ outFS' = CopyTree(inFS, outFS)
    /\ log' = log \o << LogRec("INFO", "copying", <<>>),
                        LogRec("INFO", "completed", <<>>) >>
    /\ pc' = "done"
    /\ exitCode' = 0
    /\ UNCHANGED <<inputKind, inFS, out0, jenkinsfiles, idx, run, scan_order, java_versions>>
    /\ UNCHANGED classifyVars
    /\ UNCHANGED genVars
    /\ UNCHANGED yamlVars

\* main() has returned and the program is started again with the same
\* arguments: the input tree is as it was, the output tree is what the first
\* run left, and os.walk lists the unchanged input tree in the same order
Rerun ==
    /\ pc = "done"
    /\ run = 1
    /\ run' = 2
    /\ pc' = "start"
    /\ out0' = outFS
    /\ jenkinsfiles' = <<>>
    /\ idx' = 0
    /\ log' = <<>>
    /\ exitCode' = -1
    /\ UNCHANGED <<inputKind, inFS, outFS, scan_order, java_versions>>
    /\ UNCHANGED classifyVars
    /\ UNCHANGED genVars
    /\ UNCHANGED yamlVars

Next ==
    \/ SetupOutputDirectory
    \/ FindJenkinsfiles
    \/ ConvertJenkinsfile
    \/ CopySourceCode
    \/ Rerun

-----------------------------------------------------------------------------
(* Initial trees *)

N_App_java == <<"A","p","p",".","j","a","v","a">>
N_Main_java == <<"M","a","i","n",".","j","a","v","a">>
N_m_pyc == <<"m",".","p","y","c">>
N_gitignore == <<".","g","i","t","i","g","n","o","r","e">>
N_Thumbs_db == <<"T","h","u","m","b","s",".","d","b">>
N_lib == <<"l","i","b">>
N_My_App == <<"M","y"," ","A","p","p">>
N_bad == <<"b","a","d">>
N_jenkins == <<"j","e","n","k","i","n","s">>
N_job_xml == <<"j","o","b",".","x","m","l">>
N_pycache == <<"_","_","p","y","c","a","c","h","e","_","_">>
N_git == <<".","g","i","t">>
N_config == <<"c","o","n","f","i","g">>
N_ci_yml == <<"c","i",".","y","m","l">>

S_Test == <<"U","n","i","t"," ","T","e","s","t","s">>
Cmd_deploy == <<"m","v","n"," ","d","e","p","l","o","y">>
Cmd_test == <<"m","v","n"," ","t","e","s","t">>

\* pipeline texts of the input trees
PipelineBuild == << StageTok(S_Build), OtherTok, ShTok(Cmd_make), CloseTok, CloseTok >>
PipelineDeploy == << StageTok(S_Deploy), OtherTok, ShTok(Cmd_deploy), CloseTok, CloseTok >>
PipelineTest == << StageTok(S_Test), OtherTok, ShTok(Cmd_test), CloseTok, CloseTok >>
PipelineBuildDeploy ==
    << StageTok(S_Build), OtherTok, ShTok(Cmd_make), CloseTok, CloseTok,
       StageTok(S_Deploy), OtherTok, ShTok(Cmd_deploy), CloseTok, CloseTok >>
PipelineNoStage == << OtherTok, CloseTok >>

Entry(side, path, node) == [side |-> side, path |-> path, node |-> node]

\* what an input tree may hold
InCandidates ==
    { Entry("in", <<N_Jenkinsfile>>, File(Text(PipelineBuild))),
      Entry("in", <<N_Jenkinsfile_groovy>>, File(Text(PipelineDeploy))),
      Entry("in", <<N_jenkinsfile>>, File(Text(PipelineNoStage))),
      Entry("in", <<N_pom>>, File(Raw("pom"))),
      Entry("in", <<N_App_java>>, File(Raw("app-java"))),
      Entry("in", <<N_m_pyc>>, File(Raw("pyc"))),
      Entry("in", <<N_gitignore>>, File(Raw("gitignore"))),
      Entry("in", <<N_Thumbs_db>>, File(Raw("thumbs"))),
      Entry("in", <<N_app, N_Jenkinsfile>>, File(Text(PipelineBuildDeploy))),
      Entry("in", <<N_app, N_pom>>, File(Raw("app-pom"))),
      Entry("in", <<N_app, N_Main_java>>, File(Raw("main-java"))),
      Entry("in", <<N_lib, N_app, N_Jenkinsfile>>, File(Text(PipelineTest))),
      Entry("in", <<N_My_App, N_Jenkinsfile>>, File(Text(PipelineTest))),
      Entry("in", <<N_bad, N_Jenkinsfile>>, File(Binary)),
      Entry("in", <<N_jenkins, N_job_xml>>, File(Raw("job"))),
      Entry("in", <<N_app, N_jenkins, N_job_xml>>, File(Raw("app-job"))),
      Entry("in", <<N_app, N_pycache, N_m_pyc>>, File(Raw("app-pyc"))),
      Entry("in", <<N_app, N_git, N_config>>, File(Raw("git-config"))) }

\* what may lie under the output root before the run
OutCandidates ==
    { Entry("out", <<>>, Dir),
      Entry("out", <<N_App_java>>, File(Raw("old-app-java"))),
      Entry("out", <<N_app, N_Main_java>>, File(Raw("old-main-java"))),
      Entry("out", <<N_github>>, File(Raw("old-github"))),
      Entry("out", <<N_github, N_workflows, N_ci_yml>>, File(Raw("old-ci"))),
      Entry("out", <<N_github, N_workflows, N_ci_yml>>, Dir) }

\* the subsets of S with at most k members
RECURSIVE SubsetsUpTo(_, _)
SubsetsUpTo(S, k) ==
    IF k = 0 THEN {{}}
    ELSE LET smaller == SubsetsUpTo(S, k - 1) IN
         smaller \cup { s \cup {x} : s \in smaller, x \in S }

\* entries that can lie in one tree: one node per path, nothing below a file
Consistent(entries) ==
    \A e1, e2 \in entries :
       /\ (e1.path = e2.path => e1 = e2)
       /\ ~(e1.node.kind = "file" /\ IsProperPrefix(e1.path, e2.path))

\* the tree holding the entries and the directories above them
TreeOf(entries, with_root) ==
    LET paths == { e.path : e \in entries }
        above == UNION { { SubSeq(p, 1, n) : n \in (IF with_root THEN 0 ELSE 1)..Len(p) } :
                         p \in paths }
    IN [p \in above |->
           IF p \in paths THEN (CHOOSE e \in entries : e.path = p).node ELSE Dir]

Init ==
    /\ \E entries \in SubsetsUpTo(InCandidates \cup OutCandidates, MaxEntries) :
          LET ins == { e \in entries : e.side = "in" }
              outs == { e \in entries : e.side = "out" }
          IN /\ Consistent(outs)
             /\ inputKind \in (IF ins = {} THEN {"dir", "missing", "file"} ELSE {"dir"})
             /\ inFS = TreeOf(ins, FALSE)
             /\ outFS = TreeOf(outs, TRUE)
             /\ out0 = TreeOf(outs, TRUE)
    /\ pc = "start"
    /\ jenkinsfiles = <<>>
    /\ idx = 0
    /\ log = <<>>
    /\ exitCode = -1
    /\ run = 1
    /\ scan_order = <<>>
    /\ java_versions = DefaultJavaVersions
    /\ ClassifyIdle
    /\ GenIdle
    /\ YamlIdle

Spec == Init /\ [][Next]_vars

-----------------------------------------------------------------------------
(* Claims about the run *)

LogHas(rec) == \E i \in 1..Len(log) : log[i] = rec

\* the copy step ran
CopyRan == LogHas(LogRec("INFO", "copying", <<>>))

\* the output tree right after _setup_output_directory succeeded
OutAfterSetup == Mkdirs(out0)

\* the write of the workflow of discovered file k raised: the file was read,
\* and its workflow path is a directory
WriteFailedAt(k) ==
    /\ ~ReadFails(inFS, jenkinsfiles[k])
    /\ IsDir(out0, WorkflowFile(jenkinsfiles[k]))

\* C1: a pipeline file that cannot be converted (here: cannot be read) is
\* logged as an error and does not end the run: every discovered file is
\* attempted, every later file that can be converted has its workflow
\* written, the copy step runs and main() returns 0.
C1_FailureIsolated ==
    (pc = "done" /\ jenkinsfiles # <<>>) =>
        /\ exitCode = 0
        /\ CopyRan
        /\ \A p \in CopiedPaths(inFS, OutAfterSetup) :
              Exists(outFS, p) /\ outFS[p] = inFS[p]
        /\ \A k \in 1..Len(jenkinsfiles) :
              LET jenkinsfile == jenkinsfiles[k]
                  workflow_file == WorkflowFile(jenkinsfile)
              IN /\ LogHas(LogRec("INFO", "converting", jenkinsfile))
                 /\ ReadFails(inFS, jenkinsfile) =>
                       LogHas(LogRec("ERROR", "error_converting", jenkinsfile))
                 /\ (~ReadFails(inFS, jenkinsfile) /\ ~WriteFailedAt(k)) =>
                       /\ IsFile(outFS, workflow_file)
                       /\ outFS[workflow_file].content.t = "written"
                       /\ LogHas(LogRec("INFO", "generated", workflow_file))

\* C1 witness: the run ended after a file that could not be read was followed
\* by one that was converted, and a source file was copied
C1_Witness ==
    /\ pc = "done"
    /\ exitCode = 0
    /\ \E i, k \in 1..Len(jenkinsfiles) :
          /\ i < k
          /\ ReadFails(inFS, jenkinsfiles[i])
          /\ LogHas(LogRec("ERROR", "error_converting", jenkinsfiles[i]))
          /\ ~ReadFails(inFS, jenkinsfiles[k])
          /\ IsFile(outFS, WorkflowFile(jenkinsfiles[k]))
          /\ outFS[WorkflowFile(jenkinsfiles[k])].content.t = "written"
    /\ \E p \in DOMAIN inFS : IsFile(inFS, p) /\ inFS[p].content.t = "raw" /\ Exists(outFS, p)

\* a path that the exclusion list of the tree migrator names: a pipeline
\* file, a *.pyc file, .DS_Store, Thumbs.db, or anything inside a directory
\* named jenkins, .git or __pycache__ (or such a directory itself)
ListedExcluded(fs, path) ==
    \E n \in 1..Len(path) :
       LET q == SubSeq(path, 1, n)
           nm == path[n]
       IN \/ /\ IsFile(fs, q)
             /\ \/ nm \in jenkinsfile_names
                \/ EndsWith(nm, <<".","p","y","c">>)
                \/ nm \in { <<".","D","S","_","S","t","o","r","e">>, <<"T","h","u","m","b","s",".","d","b">> }
          \/ /\ IsDir(fs, q)
             /\ nm \in { <<"j","e","n","k","i","n","s">>, <<".","g","i","t">>, <<"_","_","p","y","c","a","c","h","e","_","_">> }

\* the input tree holds no pipeline file and the workflows directory could be made
NoPipelineRun ==
    /\ pc = "done"
    /\ inputKind = "dir"
    /\ \A p \in DOMAIN inFS : IsFile(inFS, p) => Name(p) \notin jenkinsfile_names
    /\ ~MkdirFails(out0)

\* C2 as claimed: with no pipeline file the run warns and completes with the
\* source files that are not excluded copied to the output root.
C2_Original ==
    NoPipelineRun =>
        /\ LogHas(LogRec("WARNING", "no_jenkinsfiles", <<>>))
        /\ exitCode = 0
        /\ \A p \in DOMAIN inFS :
              (IsFile(inFS, p) /\ ~ListedExcluded(inFS, p)) => Exists(outFS, p)

\* C2 amended: with no pipeline file the run warns, main() returns 0, and
\* convert() returns before the copy step: the output tree is the initial one
\* with the workflows directory made, and no source file is copied.
C2_NoPipelineNoCopy ==
    NoPipelineRun =>
        /\ LogHas(LogRec("WARNING", "no_jenkinsfiles", <<>>))
        /\ exitCode = 0
        /\ ~CopyRan
        /\ outFS = OutAfterSetup

\* C2 witness: such a run ended with a copyable source file left uncopied
C2_Witness ==
    /\ NoPipelineRun
    /\ exitCode = 0
    /\ \E p \in CopiedPaths(inFS, OutAfterSetup) : IsFile(inFS, p) /\ ~Exists(outFS, p)

\* C3 as claimed: with a missing or invalid input path the run produces no
\* output and main() returns non-zero.
C3_Original ==
    (pc = "done" /\ inputKind # "dir") => (outFS = out0 /\ exitCode # 0)

\* C4 as claimed: a failure to write a generated workflow file ends the run
\* with exit code 1.
C4_Original ==
    (pc = "done" /\ \E k \in 1..Len(jenkinsfiles) : WriteFailedAt(k)) => exitCode = 1

\* C4 amended: a failure to write a generated workflow file is caught like
\* any other failure of that file: it is logged as an error, the remaining
\* files and the copy step still run, and main() returns 0; main() returns 1
\* only when an exception leaves convert(), which no per-file failure does
\* (in the model: only when the workflows directory cannot be made).
C4_WriteFailureCaught ==
    pc = "done" =>
        /\ \A k \in 1..Len(jenkinsfiles) :
              WriteFailedAt(k) =>
                 /\ exitCode = 0
                 /\ LogHas(LogRec("ERROR", "error_converting", jenkinsfiles[k]))
                 /\ IsDir(outFS, WorkflowFile(jenkinsfiles[k]))
                 /\ CopyRan
        /\ exitCode \in {0, 1}
        /\ (exitCode = 1) <=> MkdirFails(out0)
        /\ (exitCode = 1) => (jenkinsfiles = <<>> /\ outFS = out0)

\* C4 witness: the run ended with exit code 0 after a write failure
C4_Witness ==
    /\ pc = "done"
    /\ exitCode = 0
    /\ \E k \in 1..Len(jenkinsfiles) :
          /\ WriteFailedAt(k)
          /\ LogHas(LogRec("ERROR", "error_converting", jenkinsfiles[k]))

\* C5: the copy step leaves every file that was in the output tree before it
\* at its path with its content.
C5_CopyNeverOverwrites ==
    [][pc = "copy" =>
          \A p \in DOMAIN outFS :
             IsFile(outFS, p) => (p \in DOMAIN outFS' /\ outFS'[p] = outFS[p])]_vars

\* C5 witness: the copy step ran against an output tree holding a file whose
\* path the input tree holds too, with another content, and the file is as it was
C5_Witness ==
    /\ pc = "done"
    /\ CopyRan
    /\ \E p \in DOMAIN out0 :
          /\ IsFile(out0, p)
          /\ IsFile(inFS, p)
          /\ inFS[p] # out0[p]
          /\ outFS[p] = out0[p]
    /\ \E p \in DOMAIN inFS : IsFile(inFS, p) /\ ~Exists(OutAfterSetup, p) /\ Exists(outFS, p)

\* the workflow files written in the workflows directory
WrittenWorkflows ==
    { p \in DOMAIN outFS :
        Parent(p) = workflows_dir /\ IsFile(outFS, p) /\ outFS[p].content.t = "written" }

\* C6 as claimed: when every discovered pipeline file converts without error,
\* the workflows directory holds one generated file per discovered file,
\* distinct discovered files having distinct workflow files, each named
\* 'ci-' + the lower-cased, hyphenated parent directory name, or 'ci' at the root.
C6_Original ==
    (/\ pc = "done"
     /\ jenkinsfiles # <<>>
     /\ \A k \in 1..Len(jenkinsfiles) :
           ~ReadFails(inFS, jenkinsfiles[k]) /\ ~WriteFailedAt(k)) =>
        /\ Cardinality(WrittenWorkflows) = Len(jenkinsfiles)
        /\ \A i, k \in 1..Len(jenkinsfiles) :
              i # k => WorkflowFile(jenkinsfiles[i]) # WorkflowFile(jenkinsfiles[k])
        /\ \A k \in 1..Len(jenkinsfiles) :
              /\ WorkflowFile(jenkinsfiles[k]) \in WrittenWorkflows
              /\ outFS[WorkflowFile(jenkinsfiles[k])].content
                    = Written(WorkflowText(inFS, jenkinsfiles[k]))

\* C7 as claimed: after a run into an initially empty output root, nothing
\* the exclusion list names lies in the copied tree, and every other input
\* file lies at its relative path.
C7_Original ==
    (pc = "done" /\ DOMAIN out0 \subseteq {<<>>} /\ CopyRan) =>
        /\ \A p \in DOMAIN outFS :
              (p \notin MkdirPaths /\ Parent(p) # workflows_dir) => ~ListedExcluded(outFS, p)
        /\ \A p \in DOMAIN inFS :
              (IsFile(inFS, p) /\ ~ListedExcluded(inFS, p)) =>
                 (Exists(outFS, p) /\ outFS[p] = inFS[p])

-----------------------------------------------------------------------------
(* Claims about the maven jobs *)

\* the jobs mapping of the generated workflow
GenJobs == Get(g_workflow, <<"j","o","b","s">>)

\* the steps of a job of the generated workflow
JobSteps(job) == Get(Get(GenJobs, job), <<"s","t","e","p","s">>).items

\* the steps of the build-and-test job named 'Upload build artifacts'
UploadSteps ==
    { i \in 1..Len(JobSteps(<<"b","u","i","l","d","-","a","n","d","-","t","e","s","t">>)) :
        Get(JobSteps(<<"b","u","i","l","d","-","a","n","d","-","t","e","s","t">>)[i], <<"n","a","m","e">>) = DStr(<<"U","p","l","o","a","d"," ","b","u","i","l","d"," ","a","r","t","i","f","a","c","t","s">>) }

\* C11: in the maven build-and-test job the 'if' of the artifact-upload step
\* compares matrix.java-version with the last of the configured versions
\* (for ['11', '17']: with '17'), and the matrix lists the configured versions
\* in order.
C11_UploadGatedOnLast ==
    (g_pc = "generated" /\ g_info.project_type = "maven") =>
        /\ Cardinality(UploadSteps) = 1
        /\ \A i \in UploadSteps :
              LET step == JobSteps(<<"b","u","i","l","d","-","a","n","d","-","t","e","s","t">>)[i] IN
              /\ HasKey(step, <<"i","f">>)
              /\ Get(step, <<"i","f">>) =
                    DStr(<<"m","a","t","r","i","x",".","j","a","v","a","-","v","e","r","s","i","o","n"," ","=","="," ","'">>
                         \o java_versions[Len(java_versions)] \o <<"'">>)
              /\ (java_versions = <<<<"1","1">>, <<"1","7">>>> =>
                     Get(step, <<"i","f">>) = DStr(<<"m","a","t","r","i","x",".","j","a","v","a","-","v","e","r","s","i","o","n"," ","=","="," ","'","1","7","'">>))
        /\ LET matrix == Get(Get(Get(GenJobs, <<"b","u","i","l","d","-","a","n","d","-","t","e","s","t">>), <<"s","t","r","a","t","e","g","y">>), <<"m","a","t","r","i","x">>) IN
           /\ Keys(matrix) = <<<<"j","a","v","a","-","v","e","r","s","i","o","n">>>>
           /\ Get(matrix, <<"j","a","v","a","-","v","e","r","s","i","o","n">>).items
                 = [i \in 1..Len(java_versions) |-> DStr(java_versions[i])]

\* C11 witness: a maven workflow was generated for the versions ['11', '17']
\* and its artifact-upload step is gated on '17'
C11_Witness ==
    /\ g_pc = "generated"
    /\ g_info.project_type = "maven"
    /\ java_versions = <<<<"1","1">>, <<"1","7">>>>
    /\ \E i \in UploadSteps :
          Get(JobSteps(<<"b","u","i","l","d","-","a","n","d","-","t","e","s","t">>)[i], <<"i","f">>)
             = DStr(<<"m","a","t","r","i","x",".","j","a","v","a","-","v","e","r","s","i","o","n"," ","=","="," ","'","1","7","'">>)

\* C11 second witness: the same for a list of three versions
C11_WitnessThree ==
    /\ g_pc = "generated"
    /\ g_info.project_type = "maven"
    /\ Len(java_versions) = 3
    /\ UploadSteps # {}

\* every step of every job of the generated workflow
AllJobSteps ==
    UNION { Range(JobSteps(GenJobKeys[k])) : k \in 1..Len(GenJobKeys) }

\* the command of the step invokes mvn
InvokesMvn(step) == HasKey(step, <<"r","u","n">>) /\ Contains(Get(step, <<"r","u","n">>).s, <<"m","v","n">>)

\* C12: in the maven jobs, when the working directory of the pipeline is set
\* and not '.', every step whose command invokes mvn carries
\* working-directory './' + that path; when it is unset or '.', no step
\* carries a working-directory key.
C12_WorkingDirectory ==
    (g_pc = "generated" /\ g_info.project_type = "maven") =>
        IF g_info.working_directory # NoWorkingDirectory /\ g_info.working_directory # <<".">>
        THEN \A step \in AllJobSteps :
                InvokesMvn(step) =>
                   /\ HasKey(step, <<"w","o","r","k","i","n","g","-","d","i","r","e","c","t","o","r","y">>)
                   /\ Get(step, <<"w","o","r","k","i","n","g","-","d","i","r","e","c","t","o","r","y">>) = DStr(<<".","/">> \o g_info.working_directory)
        ELSE \A step \in AllJobSteps : ~HasKey(step, <<"w","o","r","k","i","n","g","-","d","i","r","e","c","t","o","r","y">>)

\* C12 witness: a maven workflow with a deliver job was generated for a
\* pipeline in app/, its mvn steps running in ./app
C12_Witness ==
    /\ g_pc = "generated"
    /\ g_info.project_type = "maven"
    /\ g_info.working_directory = <<"a","p","p">>
    /\ <<"d","e","l","i","v","e","r">> \in Range(GenJobKeys)
    /\ \E step \in AllJobSteps :
          InvokesMvn(step) /\ Get(step, <<"w","o","r","k","i","n","g","-","d","i","r","e","c","t","o","r","y">>) = DStr(<<".","/","a","p","p">>)

\* C12 second witness: a maven workflow was generated for a pipeline at the
\* root, working directory '.', and no step has a working-directory key
C12_WitnessRoot ==
    /\ g_pc = "generated"
    /\ g_info.project_type = "maven"
    /\ g_info.working_directory = <<".">>
    /\ \E step \in AllJobSteps : InvokesMvn(step)
    /\ \A step \in AllJobSteps : ~HasKey(step, <<"w","o","r","k","i","n","g","-","d","i","r","e","c","t","o","r","y">>)

-----------------------------------------------------------------------------
(* Emitter harness: dict_to_yaml applied to one document *)

\* the scalars documents of the harness are made of
YamlScalars == { DBool(TRUE), DBool(FALSE), DStr(<<"x">>), DInt(7) }

\* values nested at most d deep: a scalar, a mapping of one key, a list of
\* one element, a list of a boolean and one element; the elements of a list
\* are scalars and mappings
RECURSIVE YamlValues(_)
YamlValues(d) ==
    IF d = 0 THEN YamlScalars
    ELSE LET inner == YamlValues(d - 1)
             elements == { v \in inner : v.t # "list" }
         IN YamlScalars
            \cup { DMap(<< <<<<"k">>, v>> >>) : v \in inner }
            \cup { DList(<<v>>) : v \in elements }
            \cup { DList(<<DBool(TRUE), v>>) : v \in elements }

\* the documents: a mapping of one key, or of one key and a boolean
YamlDocs ==
    { DMap(<< <<<<"a">>, v>> >>) : v \in YamlValues(MaxDepth) }
    \cup { DMap(<< <<<<"a">>, v>>, <<<<"b">>, DBool(FALSE)>> >>) : v \in YamlValues(MaxDepth) }

InitYaml ==
    /\ y_data \in YamlDocs
    /\ y_lines = <<>>
    /\ y_pc = "init"
    /\ java_versions = DefaultJavaVersions
    /\ RunIdle
    /\ ClassifyIdle
    /\ GenIdle

\* yaml_content = dict_to_yaml(workflow)
Render ==
    /\ y_pc = "init"
    /\ y_lines' = dict_to_yaml(y_data, 0)
    /\ y_pc' = "rendered"
    /\ UNCHANGED <<y_data, java_versions>>
    /\ UNCHANGED runVars
    /\ UNCHANGED classifyVars
    /\ UNCHANGED genVars

NextYaml == Render

SpecYaml == InitYaml /\ [][NextYaml]_vars

-----------------------------------------------------------------------------
(* Claims about the emitter *)

\* number of boolean scalars of a document, at any depth
RECURSIVE CountBools(_)
RECURSIVE CountBoolsIn(_)
CountBools(v) ==
    CASE v.t = "bool" -> 1
      [] v.t = "map" -> CountBoolsIn([i \in 1..Len(v.kv) |-> v.kv[i][2]])
      [] v.t = "list" -> CountBoolsIn(v.items)
      [] OTHER -> 0
CountBoolsIn(values) ==
    IF values = <<>> THEN 0
    ELSE CountBools(Head(values)) + CountBoolsIn(Tail(values))

\* the line ends with a lower-case boolean, as a mapping value or a list element
LowerBoolLine(line) ==
    \/ EndsWith(line, <<":"," ","t","r","u","e">>)
    \/ EndsWith(line, <<":"," ","f","a","l","s","e">>)
    \/ EndsWith(line, <<"-"," ","t","r","u","e">>)
    \/ EndsWith(line, <<"-"," ","f","a","l","s","e">>)

\* C13 as claimed: every boolean scalar of the document is rendered as
\* lower-case true or false, as a mapping value at any depth and as an element
\* of a sequence: no line holds 'True' or 'False', and each boolean has its line.
C13_Original ==
    y_pc = "rendered" =>
        /\ \A i \in 1..Len(y_lines) :
              ~Contains(y_lines[i], <<"T","r","u","e">>) /\ ~Contains(y_lines[i], <<"F","a","l","s","e">>)
        /\ Cardinality({ i \in 1..Len(y_lines) : LowerBoolLine(y_lines[i]) })
              = CountBools(y_data)

-----------------------------------------------------------------------------
(* Claims about a rerun *)

\* C14: with the input tree unchanged, a second run against the output of the
\* first leaves the output tree as the first run left it: the same paths, and
\* every file with the same content.
C14_RerunIdempotent ==
    (run = 2 /\ pc = "done") =>
        /\ DOMAIN outFS = DOMAIN out0
        /\ \A p \in DOMAIN outFS : outFS[p] = out0[p]

\* C14 witness: a second run ended, having rewritten a workflow file and run
\* the copy step over a tree holding a source file copied by the first run
C14_Witness ==
    /\ run = 2
    /\ pc = "done"
    /\ CopyRan
    /\ \E k \in 1..Len(jenkinsfiles) :
          /\ LogHas(LogRec("INFO", "generated", WorkflowFile(jenkinsfiles[k])))
          /\ IsFile(out0, WorkflowFile(jenkinsfiles[k]))
          /\ out0[WorkflowFile(jenkinsfiles[k])].content.t = "written"
    /\ \E p \in DOMAIN inFS :
          IsFile(inFS, p) /\ inFS[p].content.t = "raw" /\ IsFile(outFS, p) /\ outFS[p] = inFS[p]

=============================================================================
